---- MODULE Spec2Model ----
(***************************************************************************)
(* Model of the Plotter class of report/analysis.py: the deferred-trace    *)
(* rendering layer shared by the matplotlib ("MPL") and the Plotly         *)
(* backend.  One chart is modelled: the original plotter instance          *)
(* ("plotter") and the child instance addYAxis() may create ("plotter2").  *)
(***************************************************************************)
EXTENDS Integers, Sequences, FiniteSets, TLC

\* ------------------------------------------------------------------ bounds
\* Total number of DeferredTrace objects created on the chart.
MaxTraces == 3
\* The same total in the specifications that also rename and draw legends.
MaxLegendTraces == 2
\* Number of entries addLegendItem may put on one instance's extra lists.
MaxExtra == 1
\* Number of reference lines drawn on the chart.
MaxShapes == 1

\* ------------------------------------------------------- program constants
Y1_AXIS_ID == "y1"
Y2_AXIS_ID == "y2"
\* Default zorder of addScatter/addLine/addBar/addStep/fillBetween/addLegendItem.
DefaultZorder == 2
\* zorder of the legend proxy of a reference line.
ProxyZorder == 10000

\* ------------------------------------------------------------ input sets
Plotters == {"plotter", "plotter2"}
\* zorder values handed to the trace-adding calls.
ZOrders == {1, 2, 3}
\* Label texts are sequences of characters, so that + is concatenation.
Labels == {<<"X">>, <<"Y">>}
NewTexts == {<<"t">>}
\* The style bag of a call, reduced to its 'label' key: absent or present.
\* opts are its other keys, as <<key, value>> pairs in the order passed.
NoLabel == [labelled |-> FALSE, label |-> <<>>, opts |-> <<>>]
WithLabel(l) == [labelled |-> TRUE, label |-> l, opts |-> <<>>]
StyleBags == {NoLabel} \cup {WithLabel(l) : l \in Labels}
\* A limit handed to setXLim/setYLim: None or a number.
NoLimit == [none |-> TRUE, v |-> 0]
Number(n) == [none |-> FALSE, v |-> n]
LimitValues == {NoLimit, Number(0), Number(5)}
\* The 'linestyle' key of a reference line: not given, or one of the names
\* _convertLinestyle knows.
LineStyles == {"absent", "-", "dashed", "dotted"}
\* zorder values handed to createVLine/createHLine.
LineZOrders == {1, 3}
\* The style bag of a reference line: its label, linestyle and color keys.
LineBag(bag, style, color) ==
  [labelled |-> bag.labelled, label |-> bag.label, linestyle |-> style,
   has_color |-> color]
LineBags == {LineBag(b, s, c) : b \in {NoLabel, WithLabel(<<"X">>)},
                                s \in LineStyles, c \in BOOLEAN}
\* The axes of the chart: the x-axis and the y-axis of each instance.
\* twinx() gives the child a y-axis of its own on the shared x-axis.
Axes == {<<"x", "plotter">>} \cup ({"y"} \X Plotters)
\* An axis nobody configured: limits follow the data.
AutoRange == [rangemode |-> "normal", lo |-> NoLimit, hi |-> NoLimit]

VARIABLES
  IS_MPL,           \* Plotter._IS_MPL, set once before any plotter exists
  created,          \* the plotter instances that exist
  yaxis_id,         \* self._yaxis_id
  deferred_traces,  \* self._deferred_traces
  draw_count,       \* self._draw_count
  already_drawn,    \* self._already_drawn
  tracenames,       \* self._tracenames (Plotly)
  extra_labels,     \* self._extra_labels (MPL; _extra_handles runs in parallel)
  labels_list,      \* self._labels_list (MPL; _handles_list runs in parallel)
  rendered,         \* what the backend has drawn: every executed draw operation
  legend_on,        \* backend objects on which legend() configured a legend
  shapes,           \* the reference lines drawn on the chart, in call order
  limits,           \* the range configuration of every axis of the chart
  calls,            \* history: the DeferredTrace objects in creation order
  last              \* history: the last call and the exception it raised

vars == <<IS_MPL, created, yaxis_id, deferred_traces, draw_count,
          already_drawn, tracenames, extra_labels, labels_list, rendered,
          legend_on, shapes, limits, calls, last>>

\* hasattr(self, '_child_plotter'): only the original instance can get one.
HasChild(self) == self = "plotter" /\ "plotter2" \in created

\* The backend object a plotter draws on: its own axes (MPL, twinx() gives the
\* child a new one) or the graph object both instances share (Plotly).
Backend(self) == IF IS_MPL THEN self ELSE "plotter"

\* The record kept of a call: its name and receiver, the value of the
\* receiver's _already_drawn when it was made, the exception raised and the
\* option names warnings.warn() was called for.
Outcome(op, self, exc) ==
  [op |-> op, self |-> self, drawn_before |-> already_drawn[self],
   raised |-> exc, warned |-> {}]

\* ------------------------------------------------------------ list helpers
RECURSIVE IndexFrom(_, _, _)
\* list.index(x): position of the first element equal to x, 0 when absent.
IndexFrom(s, x, i) ==
  IF i > Len(s) THEN 0
  ELSE IF s[i] = x THEN i ELSE IndexFrom(s, x, i + 1)

Index(s, x) == IndexFrom(s, x, 1)

Contains(s, x) == \E i \in 1..Len(s) : s[i] = x

\* -------------------------------------------------------------------- sort
\* A faulty key: the call position alone, zorder ignored.
KeyLessByCountOnly(a, b) == a.draw_count < b.draw_count

\* attrgetter('_zorder', '_draw_count'): tuples compare lexicographically.
KeyLess(a, b) ==
  \/ a.zorder < b.zorder
  \/ a.zorder = b.zorder /\ a.draw_count < b.draw_count

RECURSIVE InsertSorted(_, _)
\* Stable insertion: t goes after every element whose key is not greater.
InsertSorted(s, t) ==
  IF s = <<>> THEN <<t>>
  ELSE IF KeyLess(t, s[Len(s)])
       THEN Append(InsertSorted(SubSeq(s, 1, Len(s) - 1), t), s[Len(s)])
       ELSE Append(s, t)

RECURSIVE SortTraces(_)
\* list.sort(key=...): a stable sort, equal keys keep their list order.
SortTraces(s) ==
  IF s = <<>> THEN <<>>
  ELSE InsertSorted(SortTraces(SubSeq(s, 1, Len(s) - 1)), s[Len(s)])

\* ------------------------------------------------------------------- Init
Init ==
  /\ IS_MPL \in BOOLEAN
  /\ created = {"plotter"}
  /\ yaxis_id = [p \in Plotters |-> Y1_AXIS_ID]
  /\ deferred_traces = [p \in Plotters |-> <<>>]
  /\ draw_count = [p \in Plotters |-> 0]
  /\ already_drawn = [p \in Plotters |-> FALSE]
  /\ tracenames = [p \in Plotters |-> <<>>]
  /\ extra_labels = [p \in Plotters |-> <<>>]
  /\ labels_list = [p \in Plotters |-> <<>>]
  /\ rendered = <<>>
  /\ legend_on = {}
  /\ shapes = <<>>
  /\ limits = [a \in Axes |-> AutoRange]
  /\ calls = <<>>
  /\ last = [op |-> "init", self |-> "plotter", drawn_before |-> FALSE,
             raised |-> "none", warned |-> {}]

\* --------------------------------------------------------------- addYAxis
\* A faulty refusal: the hasattr(self, '_child_plotter') test is missing.
RefusesSecondAxisOnlyOnChild(self) == yaxis_id[self] = Y2_AXIS_ID

\* The two conditions under which addYAxis raises.
RefusesYAxis(self) == yaxis_id[self] = Y2_AXIS_ID \/ HasChild(self)

\* Plotter.__init__ followed by the assignment of _yaxis_id: plotter2 starts
\* with empty lists, a zero counter and _already_drawn False.
addYAxis(self) ==
  /\ self \in created
  /\ IF RefusesYAxis(self)
     THEN /\ last' = Outcome("addYAxis", self, "RuntimeError")
          /\ UNCHANGED <<created, yaxis_id, deferred_traces, draw_count,
                         already_drawn, tracenames, extra_labels,
                         labels_list>>
     ELSE /\ created' = created \cup {"plotter2"}
          /\ yaxis_id' = [yaxis_id EXCEPT !["plotter2"] = Y2_AXIS_ID]
          /\ deferred_traces' = [deferred_traces EXCEPT !["plotter2"] = <<>>]
          /\ draw_count' = [draw_count EXCEPT !["plotter2"] = 0]
          /\ already_drawn' = [already_drawn EXCEPT !["plotter2"] = FALSE]
          /\ tracenames' = [tracenames EXCEPT !["plotter2"] = <<>>]
          /\ extra_labels' = [extra_labels EXCEPT !["plotter2"] = <<>>]
          /\ labels_list' = [labels_list EXCEPT !["plotter2"] = <<>>]
          /\ last' = Outcome("addYAxis", self, "none")
  /\ UNCHANGED <<shapes, limits>>
  /\ UNCHANGED <<IS_MPL, rendered, legend_on, calls>>

\* ------------------------------------------------------ trace-adding calls
\* A faulty record: it holds the counter's value after the increment.
DeferredTraceCountAfter(id, self, tracetype, count, zorder, kwargs) ==
  [id |-> id, owner |-> self, tracetype |-> tracetype,
   draw_count |-> count + 1,
   zorder |-> zorder, labelled |-> kwargs.labelled, label |-> kwargs.label,
   showlegend |-> kwargs.showlegend, legendgroup |-> kwargs.legendgroup,
   mode |-> kwargs.mode, style |-> kwargs.style]

\* A DeferredTrace.  id is the object's identity, owner the instance whose
\* axes the draw function is bound to (MPL) or whose yaxis it names (Plotly);
\* labelled/label are the 'label' (MPL) or 'name' (Plotly) key of _kwargs,
\* mode its 'mode' key ("unset" when the key is missing), style its other
\* style keys as <<key, value>> pairs.
DeferredTrace(id, self, tracetype, count, zorder, kwargs) ==
  [id |-> id, owner |-> self, tracetype |-> tracetype, draw_count |-> count,
   zorder |-> zorder, labelled |-> kwargs.labelled, label |-> kwargs.label,
   showlegend |-> kwargs.showlegend, legendgroup |-> kwargs.legendgroup,
   mode |-> kwargs.mode, style |-> kwargs.style]

\* The style bag as MPL gets it: passed through untranslated.
MplKWArgs(bag) ==
  [labelled |-> bag.labelled, label |-> bag.label, showlegend |-> TRUE,
   legendgroup |-> "none", mode |-> "unset", style |-> bag.opts]

\* ------------------------------------------------------- style conversion
\* Values of style options.  Numbers are kept in halves (1 is 0.5, 2 is
\* 1.0), which holds every number the model prints into a colour string.
Str(s) == [t |-> "str", s |-> s, n |-> <<>>]
NoneValue == [t |-> "none", s |-> "", n |-> <<>>]
Number2(h) == [t |-> "num", s |-> "", n |-> <<h>>]
FloatTuple(c) == [t |-> "tuple", s |-> "", n |-> c]
\* The string 'rgba(r, g, b, a)', by the four numbers printed into it.
RgbaString(r, g, b, a) == [t |-> "rgba", s |-> "", n |-> <<r, g, b, a>>]

\* np.round(x * 255) for x given in halves: half-way cases go to the even
\* neighbour.
Round255(h) ==
  LET q == (h * 255) \div 2
      r == (h * 255) % 2
  IN IF r = 0 THEN q ELSE IF q % 2 = 0 THEN q ELSE q + 1

\* A faulty colour string: the components are printed unscaled.
ColorStringUnscaled(color) ==
  IF color.t = "tuple"
  THEN RgbaString(color.n[1], color.n[2], color.n[3],
                  IF Len(color.n) = 4 THEN color.n[4] ELSE 2)
  ELSE color

\* The colour string of _convertColor: a float tuple becomes
\* 'rgba(R, G, B, alpha)' with integer R, G, B and the tuple's alpha (1
\* when it has none); a colour name is passed on.
ColorString(color) ==
  IF color.t = "tuple"
  THEN RgbaString(2 * Round255(color.n[1]), 2 * Round255(color.n[2]),
                  2 * Round255(color.n[3]),
                  IF Len(color.n) = 4 THEN color.n[4] ELSE 2)
  ELSE color

\* _convertColor: the key depends on the trace type.
ConvertColor(color, tracetype) ==
  << <<IF tracetype \in {"Line", "Step", "HVline"} THEN "line_color"
       ELSE "marker_color", ColorString(color)>> >>

\* _convertLinestyle: the Plotly dash name of an MPL linestyle; 'None', ''
\* and ' ' (and a bag without the key) give no line_dash key, any other
\* unknown name fails the dictionary lookup.
ConvertLinestyle(style) ==
  CASE style \in {"-", "solid"} -> "solid"
    [] style \in {"--", "dashed"} -> "dash"
    [] style \in {"-.", "dashdot"} -> "dashdot"
    [] style \in {":", "dotted"} -> "dot"
    [] style \in {"absent", "None", "", " "} -> "absent"
    [] OTHER -> "KeyError"

\* _convertMarker: o and + have named shapes, everything else is a circle.
ConvertMarker(style) ==
  CASE style = "o" -> "circle"
    [] style = "+" -> "cross-thin"
    [] OTHER -> "circle"

\* The option names a _convert method exists for (those the model passes).
KnownOptions == {"color", "linestyle", "marker"}

\* fn(val, tracetype) for a known option: the pairs to merge (none when the
\* method returns None) and the exception raised, if any.
Translate(key, val, tracetype) ==
  CASE key = "color" ->
         [raised |-> "none", pairs |-> ConvertColor(val, tracetype)]
    [] key = "linestyle" ->
         LET dash == IF val.t = "str" THEN ConvertLinestyle(val.s)
                     ELSE "KeyError"
         IN IF dash = "KeyError" THEN [raised |-> "KeyError", pairs |-> <<>>]
            ELSE IF dash = "absent" THEN [raised |-> "none", pairs |-> <<>>]
            ELSE [raised |-> "none",
                  pairs |-> << <<"line_dash", Str(dash)>> >>]
    [] key = "marker" ->
         IF val.t = "none" THEN [raised |-> "none", pairs |-> <<>>]
         ELSE [raised |-> "none",
               pairs |-> << <<"marker_symbol",
                              Str(IF val.t = "str" THEN ConvertMarker(val.s)
                                  ELSE "circle")>> >>]
    [] OTHER -> [raised |-> "none", pairs |-> <<>>]

\* dict.update with one pair: the value of an existing key is replaced in
\* place, a new key goes to the end.
UpdatePair(d, pair) ==
  IF \E i \in 1..Len(d) : d[i][1] = pair[1]
  THEN [i \in 1..Len(d) |-> IF d[i][1] = pair[1] THEN pair ELSE d[i]]
  ELSE Append(d, pair)

RECURSIVE Update(_, _)
Update(d, pairs) ==
  IF pairs = <<>> THEN d
  ELSE Update(UpdatePair(d, Head(pairs)), Tail(pairs))

\* The values for which marker/linestyle add no mode.
NoStyle(val) ==
  val.t = "none" \/ (val.t = "str" /\ val.s \in {"None", " ", ""})

\* A faulty loop step: an option without translation raises.
ConvertStepStrict(acc, key, val, tracetype) ==
  IF key \notin KnownOptions
  THEN [acc EXCEPT !.raised = "AttributeError"]
  ELSE LET r == Translate(key, val, tracetype)
       IN IF r.raised # "none" THEN [acc EXCEPT !.raised = r.raised]
          ELSE [acc EXCEPT
                  !.style = Update(@, r.pairs),
                  !.modes = IF key = "marker" /\ ~NoStyle(val)
                            THEN Append(@, "markers")
                            ELSE IF key = "linestyle" /\ ~NoStyle(val)
                            THEN Append(@, "lines")
                            ELSE @]

\* One pass of the loop of _convertKWArgs over an option: without a
\* _convert method the option is warned about and dropped; otherwise its
\* translation is merged and marker/linestyle record a mode.
ConvertStep(acc, key, val, tracetype) ==
  IF key \notin KnownOptions
  THEN [acc EXCEPT !.warned = @ \cup {key}]
  ELSE LET r == Translate(key, val, tracetype)
       IN IF r.raised # "none" THEN [acc EXCEPT !.raised = r.raised]
          ELSE [acc EXCEPT
                  !.style = Update(@, r.pairs),
                  !.modes = IF key = "marker" /\ ~NoStyle(val)
                            THEN Append(@, "markers")
                            ELSE IF key = "linestyle" /\ ~NoStyle(val)
                            THEN Append(@, "lines")
                            ELSE @]

RECURSIVE ConvertFrom(_, _, _, _)
\* The loop of _convertKWArgs from option i on; it ends when an option's
\* translation raises.
ConvertFrom(acc, opts, i, tracetype) ==
  IF i > Len(opts) \/ acc.raised # "none" THEN acc
  ELSE ConvertFrom(ConvertStep(acc, opts[i][1], opts[i][2], tracetype),
                   opts, i + 1, tracetype)

\* The style part of _convertKWArgs: the translated pairs, the modes, the
\* option names warned about and the exception raised.
ConvertOptions(tracetype, opts) ==
  ConvertFrom([style |-> <<>>, modes |-> <<>>, warned |-> {},
               raised |-> "none"], opts, 1, tracetype)

\* '+'.join(modes)
JoinModes(modes) ==
  CASE modes = <<"lines">> -> "lines"
    [] modes = <<"markers">> -> "markers"
    [] modes = <<"lines", "markers">> -> "lines+markers"
    [] modes = <<"markers", "lines">> -> "markers+lines"
    [] OTHER -> "unset"

\* A faulty conversion: the override group is ignored.
ConvertKWArgsAxisGroup(self, legendgroup, bag) ==
  [labelled |-> bag.labelled, label |-> bag.label,
   showlegend |-> bag.labelled,
   legendgroup |->
     IF ~bag.labelled THEN "none"
     ELSE IF yaxis_id[self] = Y2_AXIS_ID THEN Y2_AXIS_ID ELSE Y1_AXIS_ID,
   mode |-> "unset", style |-> <<>>]

\* The keys _convertKWArgs adds for a trace: without a name the trace is
\* kept out of the legend; with one it joins the override group or the
\* group of the instance's axis.
ConvertKWArgs(self, legendgroup, bag) ==
  [labelled |-> bag.labelled, label |-> bag.label,
   showlegend |-> bag.labelled,
   legendgroup |->
     IF ~bag.labelled THEN "none"
     ELSE IF legendgroup # "none" THEN legendgroup
     ELSE IF yaxis_id[self] = Y2_AXIS_ID THEN Y2_AXIS_ID ELSE Y1_AXIS_ID,
   mode |-> "unset", style |-> <<>>]

\* The mode= argument the Plotly branch of a trace-adding call passes.
TraceMode(tracetype) ==
  CASE tracetype = "Scatter" -> "markers"
    [] tracetype = "Step" -> "lines"
    [] OTHER -> "unset"

\* A faulty registry: the empty name of an unnamed trace is appended too.
RegistersUnnamedToo(self, bag) ==
  IF ~IS_MPL THEN Append(tracenames[self], bag.label) ELSE tracenames[self]

\* _convertKWArgs appends the name of a named trace to _tracenames.
RegisteredNames(self, bag) ==
  IF ~IS_MPL /\ bag.labelled THEN Append(tracenames[self], bag.label)
  ELSE tracenames[self]

\* The history entry of one created DeferredTrace.
CallEntry(dt) ==
  [id |-> dt.id, owner |-> dt.owner, zorder |-> dt.zorder,
   after_draw |-> already_drawn[dt.owner]]

\* The common body of addScatter, addLine, addBar and addStep.  In Plotly
\* mode the options are converted first: an exception of a translation
\* leaves the call before anything is stored.
AppendTrace(op, self, tracetype, zorder, bag) ==
  /\ self \in created
  /\ Len(calls) < MaxTraces
  /\ LET conv == ConvertOptions(tracetype, bag.opts)
         mode == IF tracetype = "Line" /\ conv.modes # <<>>
                 THEN JoinModes(conv.modes) ELSE TraceMode(tracetype)
         kwargs == IF IS_MPL THEN MplKWArgs(bag)
                   ELSE [ConvertKWArgs(self, "none", bag)
                           EXCEPT !.mode = mode, !.style = conv.style]
         dt == DeferredTrace(Len(calls) + 1, self, tracetype,
                             draw_count[self], zorder, kwargs)
     IN IF ~IS_MPL /\ conv.raised # "none"
        THEN /\ last' = [Outcome(op, self, conv.raised)
                           EXCEPT !.warned = conv.warned]
             /\ UNCHANGED <<deferred_traces, calls, draw_count, tracenames>>
        ELSE /\ deferred_traces' =
                  [deferred_traces EXCEPT ![self] = Append(@, dt)]
             /\ calls' = Append(calls, CallEntry(dt))
             /\ draw_count' = [draw_count EXCEPT ![self] = @ + 1]
             /\ tracenames' =
                  [tracenames EXCEPT ![self] = RegisteredNames(self, bag)]
             /\ last' = [Outcome(op, self, "none")
                           EXCEPT !.warned = IF IS_MPL THEN {}
                                             ELSE conv.warned]
  /\ UNCHANGED <<shapes, limits>>
  /\ UNCHANGED <<IS_MPL, created, yaxis_id, already_drawn, extra_labels,
                 labels_list, rendered, legend_on>>

addScatter(self, zorder, bag) ==
  AppendTrace("addScatter", self, "Scatter", zorder, bag)

addLine(self, zorder, bag) ==
  AppendTrace("addLine", self, "Line", zorder, bag)

addBar(self, zorder, bag) ==
  AppendTrace("addBar", self, "Bar", zorder, bag)

addStep(self, zorder, bag) ==
  AppendTrace("addStep", self, "Step", zorder, bag)

\* ------------------------------------------------------------------- draw
\* axes.get_legend_handles_labels(): the labelled artists of one axes, its
\* lines first, then its collections, then its containers.
ArtistClass(tracetype) ==
  CASE tracetype \in {"Line", "Step"} -> 1
    [] tracetype = "Scatter" -> 2
    [] OTHER -> 3

LabelsOfClass(artists, ax, k) ==
  LET sel == SelectSeq(artists, LAMBDA t : t.owner = ax /\ t.labelled
                                         /\ ArtistClass(t.tracetype) = k)
  IN [i \in 1..Len(sel) |-> sel[i].label]

get_legend_handles_labels(artists, ax) ==
  LabelsOfClass(artists, ax, 1) \o LabelsOfClass(artists, ax, 2)
    \o LabelsOfClass(artists, ax, 3)

\* The list draw() flushes: this instance's records, then the child's.
CombinedTraces(self) ==
  IF HasChild(self)
  THEN deferred_traces[self] \o deferred_traces["plotter2"]
  ELSE deferred_traces[self]

\* A faulty assembly: the instance's extra entries precede the child's
\* automatic ones.
LegendLabelsOwnFirst(self, drawn) ==
  get_legend_handles_labels(drawn, self)
    \o extra_labels[self]
    \o (IF HasChild(self)
        THEN get_legend_handles_labels(drawn, "plotter2")
               \o extra_labels["plotter2"]
        ELSE <<>>)

\* labels + y2_labels + self._extra_labels + y2_extra_labels, the labels
\* draw() adds to _labels_list once the artists in drawn exist.
LegendLabels(self, drawn) ==
  get_legend_handles_labels(drawn, self)
    \o (IF HasChild(self)
        THEN get_legend_handles_labels(drawn, "plotter2") ELSE <<>>)
    \o extra_labels[self]
    \o (IF HasChild(self) THEN extra_labels["plotter2"] ELSE <<>>)

\* A faulty guard: draw() flushes on every call.
NeverReturnsEarly(self) == FALSE

\* The early return of draw().
ReturnsEarly(self) == already_drawn[self]

draw(self) ==
  /\ self \in created
  /\ last' = Outcome("draw", self, "none")
  /\ IF ReturnsEarly(self)
     THEN UNCHANGED <<already_drawn, deferred_traces, rendered, labels_list>>
     ELSE LET sorted == SortTraces(CombinedTraces(self))
              drawn == rendered \o sorted
          IN /\ already_drawn' =
                  [p \in Plotters |->
                     IF p = self \/ (HasChild(self) /\ p = "plotter2")
                     THEN TRUE ELSE already_drawn[p]]
             \* deferred_traces is self._deferred_traces itself: += and
             \* sort() change the instance's list in place.
             /\ deferred_traces' = [deferred_traces EXCEPT ![self] = sorted]
             /\ rendered' = drawn
             /\ labels_list' =
                  IF IS_MPL
                  THEN [labels_list EXCEPT ![self] =
                          @ \o LegendLabels(self, drawn)]
                  ELSE labels_list
  /\ UNCHANGED <<shapes, limits>>
  /\ UNCHANGED <<IS_MPL, created, yaxis_id, draw_count, tracenames,
                 extra_labels, legend_on, calls>>

\* ------------------------------------------------------------ fillBetween
\* fillBetween's alpha when the caller passes none (1, in halves).
DefaultAlpha == 2

\* mpl.colors.to_rgba of a float tuple: the tuple, opaque when it has no
\* alpha.
ToRgba(color) == IF Len(color.n) = 3 THEN color.n \o <<2>> ELSE color.n

\* The fillcolor string of the Plotly branch: the first three numbers of
\* to_rgba(color) and the alpha argument, printed as they are.
FillColor(color, alpha) ==
  RgbaString(ToRgba(color)[1], ToRgba(color)[2], ToRgba(color)[3], alpha)

\* The keyword arguments a fillBetween record is stored with.
FillKWArgs(style) ==
  [labelled |-> FALSE, label |-> <<>>, showlegend |-> IS_MPL,
   legendgroup |-> "none", mode |-> "unset", style |-> style]

\* MPL: one fill_between record.  Plotly: a transparent border trace, then
\* the trace that fills to it, each taking the counter's next value.
\* Faulty records: the counter is not advanced between border and region.
FillTracesSameCount(self, color, alpha, zorder) ==
  LET n == Len(calls)
      c == draw_count[self]
  IN IF IS_MPL
     THEN <<DeferredTrace(n + 1, self, "Fill", c, zorder,
                          FillKWArgs(<< <<"color", color>>,
                                        <<"alpha", Number2(alpha)>> >>))>>
     ELSE <<DeferredTrace(n + 1, self, "FillBorder", c, zorder,
                          FillKWArgs(<< <<"line_color",
                                          Str("rgba(0,0,0,0)")>> >>)),
            DeferredTrace(n + 2, self, "FillRegion", c, zorder,
                          [FillKWArgs(<< <<"fill", Str("tonexty")>>,
                                         <<"fillcolor",
                                           FillColor(color, alpha)>> >>)
                             EXCEPT !.mode = "none"])>>

\* The records of one fillBetween call.
FillTraces(self, color, alpha, zorder) ==
  LET n == Len(calls)
      c == draw_count[self]
  IN IF IS_MPL
     THEN <<DeferredTrace(n + 1, self, "Fill", c, zorder,
                          FillKWArgs(<< <<"color", color>>,
                                        <<"alpha", Number2(alpha)>> >>))>>
     ELSE <<DeferredTrace(n + 1, self, "FillBorder", c, zorder,
                          FillKWArgs(<< <<"line_color",
                                          Str("rgba(0,0,0,0)")>> >>)),
            DeferredTrace(n + 2, self, "FillRegion", c + 1, zorder,
                          [FillKWArgs(<< <<"fill", Str("tonexty")>>,
                                         <<"fillcolor",
                                           FillColor(color, alpha)>> >>)
                             EXCEPT !.mode = "none"])>>

fillBetween(self, color, alpha, zorder) ==
  /\ self \in created
  /\ Len(calls) + (IF IS_MPL THEN 1 ELSE 2) <= MaxTraces
  /\ LET new == FillTraces(self, color, alpha, zorder)
     IN /\ deferred_traces' = [deferred_traces EXCEPT ![self] = @ \o new]
        /\ draw_count' = [draw_count EXCEPT ![self] = @ + Len(new)]
        /\ calls' = calls \o [i \in 1..Len(new) |-> CallEntry(new[i])]
  /\ last' = Outcome("fillBetween", self, "none")
  /\ UNCHANGED <<shapes, limits>>
  /\ UNCHANGED <<IS_MPL, created, yaxis_id, already_drawn, tracenames,
                 extra_labels, labels_list, rendered, legend_on>>

\* ----------------------------------------------------------------- legend
\* A faulty guard: legend() never raises.
LegendAlwaysAllowed(self) == FALSE

\* legend() raises unless draw() has run.
LegendTooEarly(self) == ~already_drawn[self]

legend(self) ==
  /\ self \in created
  /\ IF LegendTooEarly(self)
     THEN /\ last' = Outcome("legend", self, "RuntimeError")
          /\ UNCHANGED legend_on
     ELSE /\ legend_on' = legend_on \cup {Backend(self)}
          /\ last' = Outcome("legend", self, "none")
  /\ UNCHANGED <<shapes, limits>>
  /\ UNCHANGED <<IS_MPL, created, yaxis_id, deferred_traces, draw_count,
                 already_drawn, tracenames, extra_labels, labels_list,
                 rendered, calls>>

\* ------------------------------------------------------- updateLegendText
\* old_text + new_text, old_text being legend_item only when append is set.
NewLabel(legend_item, new_text, append) ==
  (IF append THEN legend_item ELSE <<>>) \o new_text

RECURSIVE ScanFrom(_, _, _)
\* The loop over _deferred_traces: the index at which it stops, which is the
\* first record that has no label key (the subscript raises KeyError) or
\* whose label equals legend_item; 0 when it runs to the end.
ScanFrom(traces, legend_item, i) ==
  IF i > Len(traces) THEN 0
  ELSE IF ~traces[i].labelled \/ traces[i].label = legend_item THEN i
  ELSE ScanFrom(traces, legend_item, i + 1)

\* graph_obj.update_traces(name=new_label, selector=dict(name=legend_item)):
\* every trace of the shared graph object with that name is renamed.
UpdateTraces(traces, legend_item, new_label) ==
  [i \in 1..Len(traces) |->
     IF traces[i].labelled /\ traces[i].label = legend_item
     THEN [traces[i] EXCEPT !.label = new_label]
     ELSE traces[i]]

updateLegendText(self, legend_item, new_text, append) ==
  /\ self \in created
  /\ LET new_label == NewLabel(legend_item, new_text, append)
         raise(exc) ==
           /\ last' = Outcome("updateLegendText", self, exc)
           /\ UNCHANGED <<deferred_traces, tracenames, labels_list, rendered>>
     IN IF already_drawn[self]
        THEN IF IS_MPL
             THEN IF ~Contains(labels_list[self], legend_item)
                  THEN raise("ValueError")
                  ELSE /\ labels_list' =
                            [labels_list EXCEPT
                               ![self][Index(labels_list[self],
                                              legend_item)] = new_label]
                       /\ last' = Outcome("updateLegendText", self, "none")
                       /\ UNCHANGED <<deferred_traces, tracenames, rendered>>
             ELSE IF ~Contains(tracenames[self], legend_item)
                  THEN raise("ValueError")
                  ELSE /\ rendered' =
                            UpdateTraces(rendered, legend_item, new_label)
                       /\ tracenames' =
                            [tracenames EXCEPT
                               ![self][Index(tracenames[self],
                                              legend_item)] = new_label]
                       /\ last' = Outcome("updateLegendText", self, "none")
                       /\ UNCHANGED <<deferred_traces, labels_list>>
        ELSE LET i == ScanFrom(deferred_traces[self], legend_item, 1)
             IN IF i = 0 THEN raise("ValueError")
                ELSE IF ~deferred_traces[self][i].labelled
                THEN raise("KeyError")
                ELSE /\ deferred_traces' =
                          [deferred_traces EXCEPT
                             ![self][i].label = new_label]
                     /\ last' = Outcome("updateLegendText", self, "none")
                     /\ UNCHANGED <<tracenames, labels_list, rendered>>
  /\ UNCHANGED <<shapes, limits>>
  /\ UNCHANGED <<IS_MPL, created, yaxis_id, draw_count, already_drawn,
                 extra_labels, legend_on, calls>>

\* ---------------------------------------------------------- addLegendItem
\* A faulty guard: addLegendItem() never raises.
LegendItemAlwaysAllowed(self) == FALSE

\* addLegendItem() raises once draw() has run.
LegendItemTooLate(self) == already_drawn[self]

\* MPL: a Line2D handle and its label join the extra lists.  Plotly: an
\* off-canvas Scatter record in the 'extra' legend group, zorder 2.
addLegendItem(self, bag) ==
  /\ self \in created
  /\ IF LegendItemTooLate(self)
     THEN /\ last' = Outcome("addLegendItem", self, "RuntimeError")
          /\ UNCHANGED <<deferred_traces, draw_count, tracenames,
                         extra_labels, calls>>
     ELSE /\ IF IS_MPL
             THEN /\ Len(extra_labels[self]) < MaxExtra
                  /\ extra_labels' =
                       [extra_labels EXCEPT ![self] = Append(@, bag.label)]
                  /\ UNCHANGED <<deferred_traces, draw_count, tracenames,
                                 calls>>
             ELSE /\ Len(calls) < MaxTraces
                  /\ LET dt == DeferredTrace(
                                 Len(calls) + 1, self, "LegendItem",
                                 draw_count[self], DefaultZorder,
                                 ConvertKWArgs(self, "extra", bag))
                     IN /\ deferred_traces' =
                             [deferred_traces EXCEPT ![self] = Append(@, dt)]
                        /\ calls' = Append(calls, CallEntry(dt))
                  /\ draw_count' = [draw_count EXCEPT ![self] = @ + 1]
                  /\ tracenames' =
                       [tracenames EXCEPT ![self] = RegisteredNames(self, bag)]
                  /\ UNCHANGED extra_labels
          /\ last' = Outcome("addLegendItem", self, "none")
  /\ UNCHANGED <<shapes, limits>>
  /\ UNCHANGED <<IS_MPL, created, yaxis_id, already_drawn, labels_list,
                 rendered, legend_on>>

\* ------------------------------------------------- createVLine, createHLine
\* A faulty test: every labelled vertical line gets the marker glyph.
NeverLineGlyph(line_dash) == FALSE

\* The test that gives the proxy of a vertical line mode='lines'.
LineGlyph(line_dash) == line_dash \notin {"absent", "solid", "-"}

\* The proxy record of a labelled reference line (Plotly).
ProxyTrace(self, tracetype, mode, bag) ==
  DeferredTrace(Len(calls) + 1, self, tracetype, draw_count[self],
                ProxyZorder,
                [labelled |-> TRUE, label |-> bag.label, showlegend |-> TRUE,
                 legendgroup |-> "extra", mode |-> mode, style |-> <<>>])

\* axvline/axhline (MPL) or add_shape (Plotly): the line itself, drawn at
\* once, reduced to its direction, the axes (MPL) or axis (Plotly) it
\* refers to, and its Plotly layer (MPL hands the zorder to the artist).
Shape(self, kind, zorder) ==
  [kind |-> kind,
   owner |-> IF kind = "vline" THEN Backend(self) ELSE self,
   layer |-> IF IS_MPL THEN "zorder"
             ELSE IF zorder > 1 THEN "above" ELSE "below"]

\* The common body of createVLine and createHLine.  glyph is the mode of the
\* Plotly proxy, needs_color tells whether building the legend handle reads
\* the 'color' (MPL) or 'line_color' (Plotly) key of the bag.
CreateLine(op, self, kind, zorder, bag, glyph, needs_color) ==
  LET line_dash == ConvertLinestyle(bag.linestyle)
      raise(exc) ==
        /\ last' = Outcome(op, self, exc)
        /\ UNCHANGED <<deferred_traces, draw_count, extra_labels, shapes,
                       calls>>
      proxy == ProxyTrace(self, IF kind = "vline" THEN "VLineProxy"
                                ELSE "HLineProxy", glyph, bag)
  IN /\ self \in created
     /\ Len(shapes) < MaxShapes
     /\ IF IS_MPL
        THEN /\ UNCHANGED <<deferred_traces, draw_count, tracenames, calls>>
             /\ IF bag.labelled /\ needs_color /\ ~bag.has_color
                THEN raise("KeyError")
                ELSE /\ IF bag.labelled
                        THEN /\ Len(extra_labels[self]) < MaxExtra
                             /\ extra_labels' =
                                  [extra_labels EXCEPT
                                     ![self] = Append(@, bag.label)]
                        ELSE UNCHANGED extra_labels
                     /\ shapes' = Append(shapes, Shape(self, kind, zorder))
                     /\ last' = Outcome(op, self, "none")
        ELSE IF line_dash = "KeyError"
        THEN raise("KeyError") /\ UNCHANGED tracenames
        ELSE /\ bag.labelled => Len(tracenames[self]) < MaxShapes
             /\ tracenames' =
                  [tracenames EXCEPT
                     ![self] = IF bag.labelled THEN Append(@, bag.label)
                               ELSE @]
             /\ IF bag.labelled /\ needs_color /\ ~bag.has_color
                THEN raise("KeyError")
                ELSE /\ IF bag.labelled
                        THEN /\ Len(calls) < MaxTraces
                             /\ deferred_traces' =
                                  [deferred_traces EXCEPT
                                     ![self] = Append(@, proxy)]
                             /\ draw_count' =
                                  [draw_count EXCEPT ![self] = @ + 1]
                             /\ calls' = Append(calls, CallEntry(proxy))
                        ELSE UNCHANGED <<deferred_traces, draw_count, calls>>
                     /\ shapes' = Append(shapes, Shape(self, kind, zorder))
                     /\ last' = Outcome(op, self, "none")
                     /\ UNCHANGED extra_labels
     /\ UNCHANGED <<IS_MPL, created, yaxis_id, already_drawn, labels_list,
                    rendered, legend_on, limits>>

\* The legend handle of a vertical line is a vertical marker when the line
\* is solid (MPL) or not dashed (Plotly), and that marker takes the line's
\* color; otherwise it is a line with the bag's own style.
createVLine(self, zorder, bag) ==
  LET marker == IF IS_MPL THEN bag.linestyle \in {"-", "solid"}
                ELSE ~LineGlyph(ConvertLinestyle(bag.linestyle))
  IN CreateLine("createVLine", self, "vline", zorder, bag,
                IF marker THEN "markers" ELSE "lines", marker)

\* The legend handle of a horizontal line is always a line.
createHLine(self, zorder, bag) ==
  CreateLine("createHLine", self, "hline", zorder, bag, "lines", FALSE)

\* ------------------------------------------------------ setXLim, setYLim
\* A faulty test: no pair of limits is refused.
NoLimitsRefused(lo, hi) == FALSE

\* The test of setXLim/setYLim; `None != 0` holds in Python.
WrongLimits(lo, hi) ==
  \/ hi.none /\ (lo.none \/ lo.v # 0)
  \/ lo.none /\ (hi.none \/ hi.v # 0)

\* axes.set_xlim/set_ylim: an end passed as None is left as it is.
MplLimits(cfg, lo, hi) ==
  [cfg EXCEPT !.lo = IF lo.none THEN @ ELSE lo,
              !.hi = IF hi.none THEN @ ELSE hi]

\* graph_obj.update_layout: the key written into the axis' layout.
PlotlyLimits(cfg, lo, hi) ==
  IF hi.none /\ lo.none THEN cfg
  ELSE IF hi.none THEN [cfg EXCEPT !.rangemode = "nonnegative"]
  ELSE IF lo.none THEN [cfg EXCEPT !.rangemode = "tozero"]
  ELSE [cfg EXCEPT !.lo = lo, !.hi = hi]

\* The common body of setXLim and setYLim.
SetLim(op, self, axis, lo, hi) ==
  /\ self \in created
  /\ IF WrongLimits(lo, hi)
     THEN /\ last' = Outcome(op, self, "ValueError")
          /\ UNCHANGED limits
     ELSE /\ limits' = [limits EXCEPT
                          ![axis] = IF IS_MPL THEN MplLimits(@, lo, hi)
                                    ELSE PlotlyLimits(@, lo, hi)]
          /\ last' = Outcome(op, self, "none")
  /\ UNCHANGED <<IS_MPL, created, yaxis_id, deferred_traces, draw_count,
                 already_drawn, tracenames, extra_labels, labels_list,
                 rendered, legend_on, shapes, calls>>

setXLim(self, xmin, xmax) ==
  SetLim("setXLim", self, <<"x", "plotter">>, xmin, xmax)

setYLim(self, ymin, ymax) ==
  SetLim("setYLim", self, <<"y", self>>, ymin, ymax)

\* ---------------------------------------------------------- specifications
\* The colour of the bands where the colour does not matter.
Red == FloatTuple(<<2, 0, 0>>)

\* One plotter, no second axis: trace-adding calls of any zorder, then draw.
NextSingle ==
  \/ draw("plotter")
  \/ \E z \in ZOrders :
       \/ addScatter("plotter", z, NoLabel)
       \/ addLine("plotter", z, NoLabel)
       \/ addBar("plotter", z, NoLabel)
       \/ addStep("plotter", z, NoLabel)

SpecSingle == Init /\ [][NextSingle]_vars

\* Both axes: trace-adding calls of any zorder, addYAxis and draw.
NextOrder ==
  \E self \in Plotters :
    \/ addYAxis(self)
    \/ draw(self)
    \/ \E z \in ZOrders :
         \/ addScatter(self, z, NoLabel)
         \/ addLine(self, z, NoLabel)
         \/ addBar(self, z, NoLabel)
         \/ addStep(self, z, NoLabel)

SpecOrder == Init /\ [][NextOrder]_vars

\* Whether n more DeferredTrace objects fit the legend specifications.
LegendRoom(n) == Len(calls) + n <= MaxLegendTraces

\* Both axes, default zorder: the order of calls around draw, the legend
\* and the second axis.
NextLifecycle ==
  \E self \in Plotters :
    \/ addYAxis(self)
    \/ draw(self)
    \/ legend(self)
    \/ LegendRoom(IF IS_MPL THEN 1 ELSE 2)
         /\ fillBetween(self, Red, DefaultAlpha, DefaultZorder)
    \/ LegendRoom(1) /\ addLine(self, DefaultZorder, NoLabel)
    \/ LegendRoom(1) /\ \E l \in Labels : addLegendItem(self, WithLabel(l))

SpecLifecycle == Init /\ [][NextLifecycle]_vars

\* Both axes, default zorder: labelled and unlabelled traces, renamed
\* before and after draw.
NextLegend ==
  \E self \in Plotters :
    \/ addYAxis(self)
    \/ draw(self)
    \/ LegendRoom(1) /\ \E bag \in StyleBags :
                           addLine(self, DefaultZorder, bag)
    \/ \E item \in Labels, text \in NewTexts, append \in BOOLEAN :
         updateLegendText(self, item, text, append)

SpecLegend == Init /\ [][NextLegend]_vars

\* Both axes: shaded bands next to lines of any zorder.
NextFill ==
  \E self \in Plotters :
    \/ addYAxis(self)
    \/ draw(self)
    \/ \E z \in ZOrders :
         \/ fillBetween(self, Red, DefaultAlpha, z)
         \/ addLine(self, z, NoLabel)

SpecFill == Init /\ [][NextFill]_vars

\* One plotter, no second axis: reference lines of either layer next to
\* lines of any zorder.
NextLines ==
  \/ draw("plotter")
  \/ LegendRoom(1) /\ \E z \in ZOrders : addLine("plotter", z, NoLabel)
  \/ LegendRoom(1) /\ \E z \in LineZOrders, bag \in LineBags :
                         \/ createVLine("plotter", z, bag)
                         \/ createHLine("plotter", z, bag)

SpecLines == Init /\ [][NextLines]_vars

\* Both axes: the limits of the x-axis and of either y-axis.
NextLimits ==
  \E self \in Plotters :
    \/ addYAxis(self)
    \/ \E lo \in LimitValues, hi \in LimitValues :
         \/ setXLim(self, lo, hi)
         \/ setYLim(self, lo, hi)

SpecLimits == Init /\ [][NextLimits]_vars

\* The style bag of a labelled, dashed, coloured reference line.
LabelledLine(l) == LineBag(WithLabel(l), "dashed", TRUE)

\* Both axes, default zorder: labelled lines, manual legend items and
\* labelled reference lines, then draw.
NextExtras ==
  \E self \in Plotters :
    \/ addYAxis(self)
    \/ draw(self)
    \/ LegendRoom(1) /\ \E l \in Labels :
                           addLine(self, DefaultZorder, WithLabel(l))
    \/ LegendRoom(1) /\ addLegendItem(self, WithLabel(<<"X">>))
    \/ LegendRoom(1) /\ createVLine(self, 1, LabelledLine(<<"Y">>))

SpecExtras == Init /\ [][NextExtras]_vars

\* One plotter, no second axis: manual legend items and labelled reference
\* lines, renamed before and after draw.
NextRename ==
  \/ draw("plotter")
  \/ \E l \in Labels :
       \/ LegendRoom(1) /\ addLegendItem("plotter", WithLabel(l))
       \/ LegendRoom(1) /\ createVLine("plotter", 1, LabelledLine(l))
       \/ LegendRoom(1) /\ createHLine("plotter", 1, LabelledLine(l))
       \/ \E text \in NewTexts :
            updateLegendText("plotter", l, text, FALSE)

SpecRename == Init /\ [][NextRename]_vars

\* Style options passed to the trace-adding calls: colours as float tuples
\* (in halves), line styles, markers, and two options no
\* _convert method exists for.
MaxStyled == 1
ColorTuples == {<<2, 0, 0>>, <<0, 1, 2, 1>>}
OptionPairs ==
  {<<"color", FloatTuple(c)>> : c \in ColorTuples}
    \cup {<<"linestyle", v>> : v \in {Str("--"), Str("None"), Str("steps")}}
    \cup {<<"marker", v>> : v \in {Str("o"), Str("+"), Str("x")}}
    \cup {<<"picker", Number2(2)>>, <<"drawstyle", Str("steps")>>}
\* Keyword arguments: a name occurs once.
OptionSeqs ==
  {<<>>} \cup {<<p>> : p \in OptionPairs}
    \cup {pq \in OptionPairs \X OptionPairs : pq[1][1] # pq[2][1]}
OptionBags == {[NoLabel EXCEPT !.opts = o] : o \in OptionSeqs}
\* The alpha argument of fillBetween, in halves.
Alphas == {1, 2}
StyleRoom == Len(deferred_traces["plotter"]) < MaxStyled

\* One plotter: trace-adding calls with style options, and coloured bands.
NextStyle ==
  \/ StyleRoom /\ \E bag \in OptionBags :
       \/ addScatter("plotter", DefaultZorder, bag)
       \/ addLine("plotter", DefaultZorder, bag)
       \/ addBar("plotter", DefaultZorder, bag)
       \/ addStep("plotter", DefaultZorder, bag)
  \/ StyleRoom /\ \E c \in ColorTuples, a \in Alphas :
       fillBetween("plotter", FloatTuple(c), a, DefaultZorder)

SpecStyle == Init /\ [][NextStyle]_vars

\* Both axes, default zorder: labelled and unlabelled traces of the four
\* kinds.
NextGroups ==
  \E self \in Plotters :
    \/ addYAxis(self)
    \/ LegendRoom(1) /\ \E bag \in StyleBags :
         \/ addScatter(self, DefaultZorder, bag)
         \/ addLine(self, DefaultZorder, bag)
         \/ addBar(self, DefaultZorder, bag)
         \/ addStep(self, DefaultZorder, bag)

SpecGroups == Init /\ [][NextGroups]_vars

\* Every call of the model.
Next ==
  \E self \in Plotters :
    \/ addYAxis(self)
    \/ draw(self)
    \/ legend(self)
    \/ \E z \in ZOrders :
         \/ \E c \in ColorTuples, a \in Alphas :
              fillBetween(self, FloatTuple(c), a, z)
         \/ \E bag \in StyleBags \cup OptionBags :
              \/ addScatter(self, z, bag)
              \/ addLine(self, z, bag)
              \/ addBar(self, z, bag)
              \/ addStep(self, z, bag)
    \/ \E bag \in StyleBags : addLegendItem(self, bag)
    \/ \E item \in Labels, text \in NewTexts, append \in BOOLEAN :
         updateLegendText(self, item, text, append)
    \/ \E z \in LineZOrders, bag \in LineBags :
         \/ createVLine(self, z, bag)
         \/ createHLine(self, z, bag)
    \/ \E lo \in LimitValues, hi \in LimitValues :
         \/ setXLim(self, lo, hi)
         \/ setYLim(self, lo, hi)

Spec == Init /\ [][Next]_vars

\* ------------------------------------------------------------------ claims
\* The program's own state, without the two history variables.
ProgramVars == <<IS_MPL, created, yaxis_id, deferred_traces, draw_count,
                 already_drawn, tracenames, extra_labels, labels_list,
                 rendered, legend_on, shapes, limits>>

Ids(s) == [i \in 1..Len(s) |-> s[i].id]

Min(S) == CHOOSE m \in S : \A n \in S : m <= n

RECURSIVE StableByZorder(_, _)
\* The stable sort of a call sequence by zorder, written as the calls of the
\* lowest zorder in call order, then those of the next one, and so on.
StableByZorder(cs, zs) ==
  IF zs = {} THEN <<>>
  ELSE SelectSeq(cs, LAMBDA c : c.zorder = Min(zs))
         \o StableByZorder(cs, zs \ {Min(zs)})

\* The calls made on an instance before its drawn flag was set.
PreDrawCalls(self) ==
  SelectSeq(calls, LAMBDA c : c.owner = self /\ ~c.after_draw)

\* What the last draw() of the original instance executed: the tail of the
\* backend's trace list, as long as the list draw() sorted.
LastFlush ==
  SubSeq(rendered, Len(rendered) - Len(deferred_traces["plotter"]) + 1,
         Len(rendered))

\* C1: on a single plotter without a second axis, draw() executes the
\* records in the stable sort of the call sequence by zorder: lower zorder
\* first, equal zorder in call order.
C1_DrawOrderIsStableSort ==
  (already_drawn["plotter"] /\ ~HasChild("plotter"))
    => Ids(rendered) = Ids(StableByZorder(PreDrawCalls("plotter"), ZOrders))

\* C1 witness: line z=2, bar z=1, scatter z=3 were added in this order and
\* drawn as bar, line, scatter.
C1_Witness ==
  /\ already_drawn["plotter"] /\ ~HasChild("plotter")
  /\ [i \in 1..Len(calls) |-> calls[i].zorder] = <<2, 1, 3>>
  /\ [i \in 1..Len(rendered) |-> rendered[i].tracetype]
       = <<"Bar", "Line", "Scatter">>
  /\ Ids(rendered) = <<2, 1, 3>>

\* C2: draw() on the original instance flushes the records of both axes in
\* zorder ascending, and records of equal zorder in the order their calls
\* were made, whichever instance each call was made on.
C2_CombinedOrderIsCallOrder ==
  (last.op = "draw" /\ last.self = "plotter" /\ ~last.drawn_before
     /\ HasChild("plotter"))
    => Ids(LastFlush) = Ids(StableByZorder(calls, ZOrders))

\* C3: in the list draw() sorts (the original instance's records followed
\* by the child's) no two records carry the same (zorder, draw_count) pair.
C3_SortKeysAreUnique ==
  ~already_drawn["plotter"]
    => LET combined == CombinedTraces("plotter")
       IN \A i, j \in 1..Len(combined) :
            i # j => <<combined[i].zorder, combined[i].draw_count>>
                       # <<combined[j].zorder, combined[j].draw_count>>

\* C4: a draw() call on an instance whose drawn flag is set executes no
\* record and leaves the rendered traces, the drawn flags, the legend lists
\* and the record lists as they were.
C4_DrawIsIdempotent ==
  [][(last'.op = "draw" /\ already_drawn[last'.self])
       => UNCHANGED ProgramVars]_vars

\* C4 witness: draw() was called on an instance already drawn, with traces
\* rendered by the first call.
C4_Witness ==
  /\ last.op = "draw" /\ last.drawn_before
  /\ last.self = "plotter" /\ HasChild("plotter")
  /\ Len(rendered) >= 2

\* C5: whatever the order of draw() calls on the two instances, every
\* record's draw operation is executed at most once.
C5_FlushedAtMostOnce ==
  \A i, j \in 1..Len(rendered) : i # j => rendered[i].id # rendered[j].id

\* C6: addYAxis() on an original instance without child creates the child
\* with the secondary axis identity; on an instance that has a child, and on
\* the child, it raises and creates or changes nothing.
C6_AddYAxisOnce ==
  [][last'.op = "addYAxis"
       => IF last'.self = "plotter" /\ "plotter2" \notin created
          THEN /\ last'.raised = "none"
               /\ created' = created \cup {"plotter2"}
               /\ yaxis_id'["plotter2"] = Y2_AXIS_ID
               /\ yaxis_id'["plotter"] = Y1_AXIS_ID
          ELSE /\ last'.raised = "RuntimeError"
               /\ UNCHANGED ProgramVars]_vars

\* C6 witness: the second addYAxis() on the original instance raised while
\* the existing child held a record.
C6_Witness ==
  /\ last.op = "addYAxis" /\ last.self = "plotter"
  /\ last.raised = "RuntimeError"
  /\ deferred_traces["plotter2"] # <<>>

\* C7: legend() before draw() and addLegendItem() after draw() raise, and
\* change nothing.
C7_WrongSideOfDrawRaises ==
  [][(\/ last'.op = "legend" /\ ~already_drawn[last'.self]
      \/ last'.op = "addLegendItem" /\ already_drawn[last'.self])
       => (last'.raised = "RuntimeError" /\ UNCHANGED ProgramVars)]_vars

\* C7 witness: addLegendItem() raised on the child, whose drawn flag the
\* original instance's draw() had set, after traces were rendered.
C7_Witness ==
  /\ last.op = "addLegendItem" /\ last.self = "plotter2"
  /\ last.raised = "RuntimeError"
  /\ rendered # <<>>

\* C8: after draw() a trace-adding call on the instance raises and appends
\* no record, so no accepted trace is left unflushed.
C8_NoTraceAddedAfterDraw ==
  /\ (last.op \in {"addScatter", "addLine", "addBar", "addStep",
                   "fillBetween"} /\ last.drawn_before)
       => last.raised # "none"
  /\ \A i \in 1..Len(calls) :
       /\ ~calls[i].after_draw
       /\ already_drawn[calls[i].owner]
            => \E k \in 1..Len(rendered) : rendered[k].id = calls[i].id

RECURSIVE FirstLabelledFrom(_, _, _)
\* The first record, in insertion order, whose label is the given one.
FirstLabelledFrom(traces, legend_item, i) ==
  IF i > Len(traces) THEN 0
  ELSE IF traces[i].labelled /\ traces[i].label = legend_item THEN i
  ELSE FirstLabelledFrom(traces, legend_item, i + 1)

FirstLabelled(traces, legend_item) == FirstLabelledFrom(traces, legend_item, 1)

\* X+text when append is set, text alone otherwise.
ExpectedLabel(legend_item, new_text, append) ==
  IF append THEN legend_item \o new_text ELSE new_text

\* C9: updateLegendText(X, text, append) on an existing entry labelled X
\* leaves that entry labelled X+text (append) or text (no append), before
\* draw() (the entry is a record) and after it (the entry is in the label
\* registry).
C9_EntryGetsNewLabel ==
  [][\A self \in Plotters, item \in Labels, text \in NewTexts,
        append \in BOOLEAN :
       updateLegendText(self, item, text, append)
         => IF ~already_drawn[self]
            THEN LET i == FirstLabelled(deferred_traces[self], item)
                 IN i # 0 => deferred_traces'[self][i].label
                               = ExpectedLabel(item, text, append)
            ELSE IF IS_MPL
            THEN LET i == Index(labels_list[self], item)
                 IN i # 0 => labels_list'[self][i]
                               = ExpectedLabel(item, text, append)
            ELSE LET i == Index(tracenames[self], item)
                 IN i # 0 => tracenames'[self][i]
                               = ExpectedLabel(item, text, append)]_vars

\* C10: before draw(), when some record of the instance carries the label,
\* updateLegendText rewrites the first such record, changes no other record
\* and does not raise, whatever other records the instance holds.
C10_FirstMatchRewritten ==
  [][\A self \in Plotters, item \in Labels, text \in NewTexts,
        append \in BOOLEAN :
       (/\ updateLegendText(self, item, text, append)
        /\ ~already_drawn[self]
        /\ FirstLabelled(deferred_traces[self], item) # 0)
         => /\ last'.raised = "none"
            /\ deferred_traces' =
                 [deferred_traces EXCEPT
                    ![self][FirstLabelled(deferred_traces[self], item)].label
                      = ExpectedLabel(item, text, append)]]_vars

\* Whether the instance holds a legend entry with the label: a labelled
\* record before draw(), an entry of its label registry after it.
HasEntry(self, legend_item) ==
  IF ~already_drawn[self]
  THEN FirstLabelled(deferred_traces[self], legend_item) # 0
  ELSE IF IS_MPL THEN Contains(labels_list[self], legend_item)
  ELSE Contains(tracenames[self], legend_item)

\* C11: updateLegendText with a label no legend entry of the instance
\* carries raises ValueError, before and after draw(), and leaves every
\* record label, registry entry and rendered trace name as it was.
C11_UnknownLabelRaisesValueError ==
  [][\A self \in Plotters, item \in Labels, text \in NewTexts,
        append \in BOOLEAN :
       (updateLegendText(self, item, text, append) /\ ~HasEntry(self, item))
         => (last'.raised = "ValueError" /\ UNCHANGED ProgramVars)]_vars

\* Whether the backend shows a trace of the instance under the label.
Shown(traces, self, legend_item) ==
  \E k \in 1..Len(traces) :
    /\ traces[k].owner = self
    /\ traces[k].labelled /\ traces[k].label = legend_item

\* C12: a labelled trace added through the child can be renamed by calling
\* updateLegendText on the child, before draw() and after the original
\* instance's draw(), in both backends: the call does not raise and the
\* entry carries the new label.  Stated for a child all of whose records
\* are labelled.
C12_ChildEntryRenamedOnChild ==
  [][\A item \in Labels, text \in NewTexts, append \in BOOLEAN :
       (/\ updateLegendText("plotter2", item, text, append)
        /\ \A i \in 1..Len(deferred_traces["plotter2"]) :
             deferred_traces["plotter2"][i].labelled
        /\ IF already_drawn["plotter2"]
           THEN already_drawn["plotter"] /\ Shown(rendered, "plotter2", item)
           ELSE Shown(deferred_traces["plotter2"], "plotter2", item))
         => /\ last'.raised = "none"
            /\ LET new == ExpectedLabel(item, text, append)
               IN IF ~already_drawn["plotter2"]
                  THEN Shown(deferred_traces'["plotter2"], "plotter2", new)
                  ELSE IF IS_MPL
                  THEN \E p \in Plotters : Contains(labels_list'[p], new)
                  ELSE Shown(rendered', "plotter2", new)]_vars

\* The names of the labelled traces of an instance, in list order.
NamesOf(traces, self) ==
  LET sel == SelectSeq(traces, LAMBDA t : t.owner = self /\ t.labelled)
  IN [i \in 1..Len(sel) |-> sel[i].label]

\* Two sequences with the same elements, each as often in one as in the
\* other.
SameBag(s, t) ==
  \A x \in {s[i] : i \in 1..Len(s)} \cup {t[i] : i \in 1..Len(t)} :
    Cardinality({i \in 1..Len(s) : s[i] = x})
      = Cardinality({i \in 1..Len(t) : t[i] = x})

\* C13: in Interactive mode an instance's trace-name registry holds exactly
\* the current names of its labelled records, each as often as records
\* carry it.  Stated for the instances not rendered yet.
C13_RegistryMatchesNames ==
  ~IS_MPL
    => \A self \in created :
         ~already_drawn[self]
           => SameBag(tracenames[self],
                      NamesOf(deferred_traces[self], self))

\* C14: setXLim/setYLim with exactly one limit omitted raise ValueError and
\* leave the axis configuration (and everything else) unchanged when the
\* other limit is not zero, and succeed when it is zero.
C14_OneSidedLimits ==
  [][\A self \in Plotters, lo \in LimitValues, hi \in LimitValues :
       (/\ setXLim(self, lo, hi) \/ setYLim(self, lo, hi)
        /\ lo.none # hi.none)
         => IF (IF lo.none THEN hi.v ELSE lo.v) # 0
            THEN last'.raised = "ValueError" /\ UNCHANGED ProgramVars
            ELSE last'.raised = "none"]_vars

\* C14 witness: setYLim(ymin=None, ymax=0) on the child succeeded in Plotly
\* mode and set the range mode of yaxis2, the x-axis having a range already.
C14_Witness ==
  /\ ~IS_MPL
  /\ last.op = "setYLim" /\ last.self = "plotter2" /\ last.raised = "none"
  /\ limits[<<"y", "plotter2">>].rangemode = "tozero"
  /\ limits[<<"x", "plotter">>].hi = Number(5)

\* C15: setXLim/setYLim do not raise when both limits are supplied and when
\* both are omitted.
C15_RaisesOnlyWhenOneSided ==
  [][\A self \in Plotters, lo \in LimitValues, hi \in LimitValues :
       (/\ setXLim(self, lo, hi) \/ setYLim(self, lo, hi)
        /\ lo.none = hi.none)
         => last'.raised = "none"]_vars

\* C16: fillBetween appends two records in Plotly mode, the transparent
\* border and then the region filled to the previous trace, with
\* consecutive draw_count values and the same zorder, and advances the
\* counter by two; in MPL mode it appends one fill_between record and
\* advances the counter by one.
C16_FillBetweenRecords ==
  [][last'.op = "fillBetween"
       => LET self == last'.self
              old == deferred_traces[self]
              new == deferred_traces'[self]
              c == draw_count[self]
              k == IF IS_MPL THEN 1 ELSE 2
          IN /\ Len(new) = Len(old) + k
             /\ SubSeq(new, 1, Len(old)) = old
             /\ draw_count'[self] = c + k
             /\ \A p \in Plotters \ {self} :
                  /\ deferred_traces'[p] = deferred_traces[p]
                  /\ draw_count'[p] = draw_count[p]
             /\ IF IS_MPL
                THEN /\ new[Len(new)].tracetype = "Fill"
                     /\ new[Len(new)].draw_count = c
                ELSE LET border == new[Len(new) - 1]
                         region == new[Len(new)]
                     IN /\ border.tracetype = "FillBorder"
                        /\ region.tracetype = "FillRegion"
                        /\ border.draw_count = c
                        /\ region.draw_count = c + 1
                        /\ border.zorder = region.zorder
                        /\ border.owner = self /\ region.owner = self]_vars

\* C16 witness: in Plotly mode fillBetween with zorder 3 on the child, which
\* held a line, left it with three records and the counter at 3.
C16_Witness ==
  /\ ~IS_MPL
  /\ last.op = "fillBetween" /\ last.self = "plotter2"
  /\ ~last.drawn_before
  /\ Len(deferred_traces["plotter2"]) = 3
  /\ deferred_traces["plotter2"][1].tracetype = "Line"
  /\ deferred_traces["plotter2"][3].zorder = 3
  /\ draw_count["plotter2"] = 3

\* C17: in Plotly mode, in the order draw() of the original instance
\* executes the records of both axes, the region record of a fillBetween
\* call comes immediately after the border record of the same call.
C17_FillPairStaysAdjacent ==
  (~IS_MPL /\ last.op = "draw" /\ last.self = "plotter"
     /\ ~last.drawn_before)
    => \A k \in 1..Len(LastFlush) :
         LastFlush[k].tracetype = "FillBorder"
           => /\ k < Len(LastFlush)
              /\ LastFlush[k + 1].id = LastFlush[k].id + 1

\* What a createVLine/createHLine step added to the instance's records.
Appended(self) ==
  SubSeq(deferred_traces'[self], Len(deferred_traces[self]) + 1,
         Len(deferred_traces'[self]))

\* The step drew one reference line and appended one proxy record with the
\* given glyph, named after the line's label, in the 'extra' legend group.
OneShapeOneProxy(self, bag, glyph) ==
  /\ last'.raised = "none"
  /\ Len(shapes') = Len(shapes) + 1
  /\ SubSeq(shapes', 1, Len(shapes)) = shapes
  /\ shapes'[Len(shapes')].kind = "vline"
  /\ SubSeq(deferred_traces'[self], 1, Len(deferred_traces[self]))
       = deferred_traces[self]
  /\ Len(Appended(self)) = 1
  /\ Appended(self)[1].tracetype = "VLineProxy"
  /\ Appended(self)[1].label = bag.label
  /\ Appended(self)[1].legendgroup = "extra"
  /\ Appended(self)[1].mode = glyph

\* C18 as stated: in Plotly mode createVLine with a label and a dashed or
\* dotted linestyle draws one shape and appends one proxy record whose glyph
\* is a marker; a proxy with a line glyph belongs to a solid line.
C18_DashedLineGetsMarkerGlyph ==
  [][\A z \in LineZOrders, bag \in LineBags :
       (/\ ~IS_MPL /\ last'.op = "createVLine" /\ bag.labelled
        /\ createVLine(last'.self, z, bag))
         => LET self == last'.self
            IN
            /\ bag.linestyle \in {"dashed", "dotted"}
                 => OneShapeOneProxy(self, bag, "markers")
            /\ (Appended(self) # <<>> /\ Appended(self)[1].mode = "lines")
                 => bag.linestyle \in {"-", "solid"}]_vars

\* C18 as the code has it: in Plotly mode createVLine with a label and a
\* dashed or dotted linestyle draws one shape and appends one proxy record
\* whose glyph is a line; a proxy with a marker glyph belongs to a line that
\* is solid or was given no linestyle.
C18_DashedLineGetsLineGlyph ==
  [][\A z \in LineZOrders, bag \in LineBags :
       (/\ ~IS_MPL /\ last'.op = "createVLine" /\ bag.labelled
        /\ createVLine(last'.self, z, bag))
         => LET self == last'.self
            IN
            /\ bag.linestyle \in {"dashed", "dotted"}
                 => OneShapeOneProxy(self, bag, "lines")
            /\ (Appended(self) # <<>> /\ Appended(self)[1].mode = "markers")
                 => bag.linestyle \in {"-", "solid", "absent"}]_vars

\* C18 witness: in Plotly mode a labelled, dashed vertical line was created
\* next to a line: one shape, and a proxy with a line glyph.
C18_Witness ==
  /\ ~IS_MPL
  /\ last.op = "createVLine" /\ last.self = "plotter"
  /\ last.raised = "none"
  /\ Len(shapes) = 1 /\ shapes[1].kind = "vline"
  /\ Len(deferred_traces["plotter"]) = 2
  /\ deferred_traces["plotter"][1].tracetype = "Line"
  /\ deferred_traces["plotter"][2].tracetype = "VLineProxy"
  /\ deferred_traces["plotter"][2].mode = "lines"
  /\ deferred_traces["plotter"][2].label = <<"X">>

\* The legend proxy of a reference line.
IsProxy(t) == t.tracetype \in {"VLineProxy", "HLineProxy"}

\* In what the original instance's draw() executed, no record that is not
\* a proxy of a reference line comes after such a proxy.
ProxiesFlushedLast ==
  (last.op = "draw" /\ last.self = "plotter" /\ ~last.drawn_before)
    => \A i, j \in 1..Len(LastFlush) :
         (i < j /\ IsProxy(LastFlush[i])) => IsProxy(LastFlush[j])

\* C19: in Plotly mode createVLine/createHLine append one proxy record when
\* a label is supplied and otherwise add the shape alone, leaving the
\* records and the counter as they were; and draw() executes every proxy
\* after every other record, whatever the zorder of the reference line.
C19_ProxyIffLabelAndFlushedLast ==
  [][~IS_MPL
       => /\ \A self \in Plotters, z \in LineZOrders, bag \in LineBags :
               (createVLine(self, z, bag) \/ createHLine(self, z, bag))
                 => IF bag.labelled
                    THEN /\ Len(Appended(self)) = 1
                         /\ IsProxy(Appended(self)[1])
                         /\ draw_count'[self] = draw_count[self] + 1
                    ELSE /\ Len(shapes') = Len(shapes) + 1
                         /\ UNCHANGED <<deferred_traces, draw_count>>
          /\ ProxiesFlushedLast']_vars

\* C20: addLegendItem before draw() registers one legend entry and draws
\* nothing.  Plotly: one off-canvas record with the label, in legend group
\* 'extra', is appended, the counter advances by one and the label joins
\* the registry.  MPL: the label (and its handle) is appended to the extra
\* lists, the records and the counter stay as they were.
C20_LegendItemBeforeDraw ==
  [][\A self \in Plotters, l \in Labels :
       (addLegendItem(self, WithLabel(l)) /\ ~already_drawn[self])
         => /\ last'.raised = "none"
            /\ UNCHANGED <<rendered, shapes, labels_list>>
            /\ IF IS_MPL
               THEN /\ extra_labels'[self] = Append(extra_labels[self], l)
                    /\ UNCHANGED <<deferred_traces, draw_count, tracenames>>
               ELSE /\ SubSeq(deferred_traces'[self], 1,
                              Len(deferred_traces[self]))
                         = deferred_traces[self]
                    /\ Len(Appended(self)) = 1
                    /\ Appended(self)[1].tracetype = "LegendItem"
                    /\ Appended(self)[1].label = l
                    /\ Appended(self)[1].legendgroup = "extra"
                    /\ Appended(self)[1].draw_count = draw_count[self]
                    /\ draw_count'[self] = draw_count[self] + 1
                    /\ tracenames'[self] = Append(tracenames[self], l)
                    /\ UNCHANGED extra_labels]_vars

\* C20 witness: in Plotly mode addLegendItem on the child, which held a
\* line, appended the record of legend group 'extra' and nothing was drawn.
C20_Witness ==
  /\ ~IS_MPL
  /\ last.op = "addLegendItem" /\ last.self = "plotter2"
  /\ last.raised = "none"
  /\ Len(deferred_traces["plotter2"]) = 2
  /\ deferred_traces["plotter2"][2].tracetype = "LegendItem"
  /\ deferred_traces["plotter2"][2].legendgroup = "extra"
  /\ draw_count["plotter2"] = 2
  /\ rendered = <<>>

\* C21: in MPL mode, after the first draw() of the original instance its
\* label list is the labels of the artists on its own axes, then those on
\* the child's axes, then its own extra labels (reference lines and manual
\* items in call order), then the child's extra labels; without a child the
\* two child parts are empty.
C21_LegendListOrder ==
  (IS_MPL /\ last.op = "draw" /\ last.self = "plotter"
     /\ ~last.drawn_before)
    => labels_list["plotter"]
         = get_legend_handles_labels(rendered, "plotter")
             \o (IF "plotter2" \in created
                 THEN get_legend_handles_labels(rendered, "plotter2")
                 ELSE <<>>)
             \o extra_labels["plotter"]
             \o (IF "plotter2" \in created
                 THEN extra_labels["plotter2"] ELSE <<>>)

\* C21 witness: the original instance held line X and manual item X, the
\* child line Y and the labelled reference line Y; draw() left the list
\* X, Y, X, Y.
C21_Witness ==
  /\ IS_MPL /\ last.op = "draw" /\ last.self = "plotter"
  /\ ~last.drawn_before
  /\ extra_labels = [plotter |-> << <<"X">> >>, plotter2 |-> << <<"Y">> >>]
  /\ Len(shapes) = 1
  /\ labels_list["plotter"] = << <<"X">>, <<"Y">>, <<"X">>, <<"Y">> >>

\* The options of a bag a _convert method exists for, and the names of the
\* others.
Recognised(opts) == SelectSeq(opts, LAMBDA p : p[1] \in KnownOptions)
Unrecognised(opts) ==
  {opts[i][1] : i \in {j \in 1..Len(opts) : opts[j][1] \notin KnownOptions}}

BagsWithUnrecognised ==
  {bag \in OptionBags : Unrecognised(bag.opts) # {}}

TraceOps ==
  {<<"addScatter", "Scatter">>, <<"addLine", "Line">>, <<"addBar", "Bar">>,
   <<"addStep", "Step">>}

\* The record a trace-adding call of Plotly mode stores for a bag whose
\* options are opts.
PlotlyRecord(self, tracetype, zorder, bag, opts) ==
  LET conv == ConvertOptions(tracetype, opts)
  IN DeferredTrace(Len(calls) + 1, self, tracetype, draw_count[self], zorder,
                   [ConvertKWArgs(self, "none", bag) EXCEPT
                      !.mode = IF tracetype = "Line" /\ conv.modes # <<>>
                               THEN JoinModes(conv.modes)
                               ELSE TraceMode(tracetype),
                      !.style = conv.style])

\* C22: in Plotly mode the option names without a translation never make a
\* trace-adding call raise: the call raises exactly when it raises for the
\* bag without them, and when it does not, each of those names has been
\* warned about and the record appended is the one the bag without them
\* gives, its recognised options translated.
C22_UnrecognisedNamesDropped ==
  [][\A o \in TraceOps :
       (~IS_MPL /\ last'.op = o[1]) =>
         \A bag \in BagsWithUnrecognised :
           AppendTrace(o[1], "plotter", o[2], DefaultZorder, bag)
             => LET known == Recognised(bag.opts)
                IN /\ last'.raised = ConvertOptions(o[2], known).raised
                   /\ last'.raised = "none" =>
                        /\ last'.warned = Unrecognised(bag.opts)
                        /\ deferred_traces'["plotter"] =
                             Append(deferred_traces["plotter"],
                                    PlotlyRecord("plotter", o[2],
                                                 DefaultZorder, bag, known))]_vars

C22_Witness ==
  /\ ~IS_MPL
  /\ last.op = "addLine" /\ last.raised = "none"
  /\ last.warned = {"picker"}
  /\ Len(deferred_traces["plotter"]) = 1
  /\ deferred_traces["plotter"][1].style = << <<"line_dash", Str("dash")>> >>
  /\ deferred_traces["plotter"][1].mode = "lines"

\* The record a step has appended to the list of self.
NewRecord(self) == deferred_traces'[self][Len(deferred_traces'[self])]

\* C23: in Plotly mode a record that addScatter, addLine, addBar or addStep
\* creates with a label is shown in the legend, in the group of its
\* context's axis identity (y1 on the primary, y2 on the secondary), and the
\* label is appended to the context's name registry; a record created
\* without a label is not shown, has no legend group, and the registry is
\* left as it was.
C23_LegendGroupByAxis ==
  [][\A o \in TraceOps, self \in Plotters, bag \in StyleBags :
       (/\ last'.op = o[1] /\ last'.self = self
        /\ ~IS_MPL
        /\ AppendTrace(o[1], self, o[2], DefaultZorder, bag))
         => /\ Len(deferred_traces'[self]) = Len(deferred_traces[self]) + 1
            /\ NewRecord(self).labelled = bag.labelled
            /\ IF bag.labelled
               THEN /\ NewRecord(self).label = bag.label
                    /\ NewRecord(self).showlegend
                    /\ NewRecord(self).legendgroup
                         = (IF self = "plotter" THEN "y1" ELSE "y2")
                    /\ tracenames'[self] = Append(tracenames[self], bag.label)
               ELSE /\ ~NewRecord(self).showlegend
                    /\ NewRecord(self).legendgroup = "none"
                    /\ tracenames'[self] = tracenames[self]]_vars

C23_Witness ==
  /\ ~IS_MPL
  /\ last.op = "addBar" /\ last.self = "plotter2"
  /\ Len(deferred_traces["plotter2"]) = 1
  /\ deferred_traces["plotter2"][1].legendgroup = "y2"
  /\ tracenames["plotter2"] = << <<"X">> >>
  /\ Len(deferred_traces["plotter"]) = 1
  /\ ~deferred_traces["plotter"][1].showlegend
  /\ tracenames["plotter"] = <<>>

\* Whether value v is the rgba string of float tuple c (numbers in halves)
\* with alpha a: R, G and B whole numbers of 0..255 within one half of 255
\* times the input.
EncodesTuple(v, c, a) ==
  /\ v.t = "rgba"
  /\ \A i \in 1..3 :
       /\ v.n[i] % 2 = 0
       /\ v.n[i] \div 2 \in 0..255
       /\ v.n[i] - 255 * c[i] \in -1..1
  /\ v.n[4] = a

TupleAlpha(c) == IF Len(c) = 4 THEN c[4] ELSE 2

\* The value stored under key in a record's style.
StyleValues(dt, keys) ==
  {dt.style[i][2] : i \in {j \in 1..Len(dt.style) : dt.style[j][1] \in keys}}

\* C24: in Plotly mode every colour given as an RGB(A) float tuple is stored
\* as an rgba string with R, G, B scaled to 0-255 integers and the alpha
\* kept, both for the color option of a trace-adding call and for the fill
\* colour of fillBetween.
C24_ColourTuplesScaled ==
  [][~IS_MPL =>
       /\ \A o \in TraceOps :
            last'.op = o[1] =>
              \A bag \in OptionBags, c \in ColorTuples :
                (/\ \E i \in 1..Len(bag.opts) :
                      bag.opts[i] = <<"color", FloatTuple(c)>>
                 /\ AppendTrace(o[1], "plotter", o[2], DefaultZorder, bag)
                 /\ last'.raised = "none")
                  => \E v \in StyleValues(NewRecord("plotter"),
                                          {"line_color", "marker_color"}) :
                       EncodesTuple(v, c, TupleAlpha(c))
       /\ last'.op = "fillBetween" =>
            \A c \in ColorTuples, a \in Alphas :
              fillBetween("plotter", FloatTuple(c), a, DefaultZorder)
                => \E v \in StyleValues(NewRecord("plotter"), {"fillcolor"}) :
                     EncodesTuple(v, c, a)]_vars

\* The colours of the style bags alone are scaled.
C24_BagColoursScaled ==
  [][~IS_MPL =>
       \A o \in TraceOps :
         last'.op = o[1] =>
           \A bag \in OptionBags, c \in ColorTuples :
             (/\ \E i \in 1..Len(bag.opts) :
                   bag.opts[i] = <<"color", FloatTuple(c)>>
              /\ AppendTrace(o[1], "plotter", o[2], DefaultZorder, bag)
              /\ last'.raised = "none")
               => \E v \in StyleValues(NewRecord("plotter"),
                                       {"line_color", "marker_color"}) :
                    EncodesTuple(v, c, TupleAlpha(c))]_vars

\* The value a bag passes under key, as a set (empty without the key).
Passed(bag, key) ==
  {bag.opts[i][2] : i \in {j \in 1..Len(bag.opts) : bag.opts[j][1] = key}}

\* C25: in Plotly mode a trace-adding call whose bag holds recognised
\* options does not raise, whatever their values: a record is appended, a
\* known line-style token gives its dash name, 'None' and any unsupported
\* line style give no line_dash, and a marker gives its named shape or the
\* circle.
C25_RecognisedOptionsNeverRaise ==
  [][\A o \in TraceOps :
       (~IS_MPL /\ last'.op = o[1]) =>
         \A bag \in OptionBags :
           AppendTrace(o[1], "plotter", o[2], DefaultZorder, bag)
             => /\ last'.raised = "none"
                /\ Len(deferred_traces'["plotter"])
                     = Len(deferred_traces["plotter"]) + 1
                /\ StyleValues(NewRecord("plotter"), {"line_dash"})
                     = {Str("dash") : v \in Passed(bag, "linestyle")
                                          \cap {Str("--")}}
                /\ StyleValues(NewRecord("plotter"), {"marker_symbol"})
                     = {Str(ConvertMarker(v.s)) : v \in Passed(bag, "marker")}]_vars

\* C26: in Plotly mode, in the order draw() has flushed the records, no
\* record of addLegendItem comes before a labelled record of addScatter,
\* addLine, addBar or addStep.
C26_LegendItemsFlushedLast ==
  ~IS_MPL =>
    \A i, j \in 1..Len(rendered) :
      (/\ rendered[i].tracetype = "LegendItem"
       /\ rendered[j].tracetype \in {"Scatter", "Line", "Bar", "Step"}
       /\ rendered[j].labelled)
        => j < i

\* C27: before draw(), each call of addScatter, addLine, addBar or addStep
\* appends exactly one record, holding the counter's value before the call
\* and the zorder passed, advances the counter by one and draws nothing;
\* afterwards the k-th record of the context holds k-1 and the counter
\* equals the number of records.
C27_OneRecordPerCall ==
  [][\A o \in TraceOps :
       (last'.op = o[1] /\ ~already_drawn["plotter"]) =>
         \A z \in ZOrders :
           AppendTrace(o[1], "plotter", o[2], z, NoLabel)
             => /\ Len(deferred_traces'["plotter"])
                     = Len(deferred_traces["plotter"]) + 1
                /\ SubSeq(deferred_traces'["plotter"], 1,
                          Len(deferred_traces["plotter"]))
                     = deferred_traces["plotter"]
                /\ NewRecord("plotter").draw_count = draw_count["plotter"]
                /\ NewRecord("plotter").zorder = z
                /\ NewRecord("plotter").tracetype = o[2]
                /\ draw_count'["plotter"] = draw_count["plotter"] + 1
                /\ rendered' = rendered
                /\ already_drawn' = already_drawn
                /\ \A k \in 1..Len(deferred_traces'["plotter"]) :
                     deferred_traces'["plotter"][k].draw_count = k - 1
                /\ draw_count'["plotter"]
                     = Len(deferred_traces'["plotter"])]_vars

C27_Witness ==
  /\ last.op = "addStep" /\ ~last.drawn_before
  /\ Len(deferred_traces["plotter"]) = 3
  /\ draw_count["plotter"] = 3
  /\ deferred_traces["plotter"][3].draw_count = 2
  /\ deferred_traces["plotter"][3].zorder = 1
  /\ deferred_traces["plotter"][1].zorder = DefaultZorder
  /\ rendered = <<>>

\* Whether legend entry l of the plotter, given to createVLine, createHLine
\* or addLegendItem, is still to be rendered under that name.
ExtraEntry(l) ==
  IF IS_MPL
  THEN \E i \in 1..Len(extra_labels["plotter"]) :
         extra_labels["plotter"][i] = l
  ELSE \E i \in 1..Len(deferred_traces["plotter"]) :
         /\ deferred_traces["plotter"][i].labelled
         /\ deferred_traces["plotter"][i].label = l

\* C28: in both modes updateLegendText, called before draw() with the label
\* given to createVLine, createHLine or addLegendItem, does not raise and
\* rewrites that entry.
C28_ExtraEntryRenamedBeforeDraw ==
  [][(last'.op = "updateLegendText" /\ ~already_drawn["plotter"]) =>
       \A l \in Labels, text \in NewTexts :
         (ExtraEntry(l) /\ updateLegendText("plotter", l, text, FALSE))
           => /\ last'.raised = "none"
              /\ ExtraEntry(text)']_vars

\* The same in Plotly mode alone.
C28_ProxyRenamedBeforeDraw ==
  [][(~IS_MPL /\ last'.op = "updateLegendText" /\ ~already_drawn["plotter"]) =>
       \A l \in Labels, text \in NewTexts :
         (ExtraEntry(l) /\ updateLegendText("plotter", l, text, FALSE))
           => last'.raised = "none" /\ ExtraEntry(text)']_vars

\* The other context of the primary/secondary pair.
OtherContext(self) == IF self = "plotter" THEN "plotter2" ELSE "plotter"

\* C29: updateLegendText on one context leaves every record label, registry
\* entry, legend label and rendered trace of the other context as it was.
C29_OtherContextUntouched ==
  [][last'.op = "updateLegendText" =>
       LET other == OtherContext(last'.self)
       IN /\ deferred_traces'[other] = deferred_traces[other]
          /\ tracenames'[other] = tracenames[other]
          /\ labels_list'[other] = labels_list[other]
          /\ Len(rendered') = Len(rendered)
          /\ \A i \in 1..Len(rendered) :
               rendered[i].owner = other => rendered'[i] = rendered[i]]_vars

\* A drawn primary has no child that is not drawn.
ChildDrawnWithPrimary ==
  (already_drawn["plotter"] /\ "plotter2" \in created)
    => already_drawn["plotter2"]

\* C30: the drawn flag of a context never returns to false, and whenever the
\* primary is drawn its child, if there is one, is drawn too.
C30_DrawnFlagsStayConsistent ==
  [][/\ \A p \in created : already_drawn[p] => already_drawn'[p]
     /\ ChildDrawnWithPrimary']_vars

\* The first half alone: a drawn flag never returns to false.
C30_DrawnFlagMonotone ==
  [][\A p \in created : already_drawn[p] => already_drawn'[p]]_vars

====
